---- MODULE Spec2Model ----
(***************************************************************************)
(* EchoSphere: the Recording Lifecycle Controller.                         *)
(*                                                                         *)
(* The Recording entity, its status enum, its columns and the table of     *)
(* state transitions are taken from the implementation plan and the ADR    *)
(* of the repository.  The recording service, the webhook handler and the  *)
(* egress gateway (apps/agent/...) are modelled from the specification.    *)
(***************************************************************************)
EXTENDS Integers, Sequences, FiniteSets, TLC

(* ------------------------------ bounds --------------------------------- *)
MaxRecordings == 2
MaxOrdinal == 3

Sessions == {"sess-001"}
RecIds == 1..MaxRecordings

(* --------------------------- option values ----------------------------- *)
None == <<>>
Some(x) == <<x>>

(* ------------------------- the Recording entity ------------------------ *)
RecordingStatus == {"starting", "active", "processing", "completed", "failed"}
NonTerminal == {"starting", "active", "processing"}
Terminal == {"completed", "failed"}

S3_BUCKET_RECORDINGS == "echosphere-recordings"
PlaylistName == "playlist.m3u8"

FilenamePrefix(sessionId) == <<"recordings", sessionId>>

(* From | To pairs of the State Transitions table. *)
StateTransitions_ReviveFailed ==
    { <<"starting", "active">>, <<"starting", "failed">>,
      <<"active", "processing">>, <<"active", "failed">>,
      <<"processing", "completed">>, <<"processing", "failed">>,
      <<"failed", "active">> }

StateTransitions_ReviveCompleted ==
    { <<"starting", "active">>, <<"starting", "failed">>,
      <<"active", "processing">>, <<"active", "failed">>,
      <<"processing", "completed">>, <<"processing", "failed">>,
      <<"completed", "active">> }

StateTransitions_NoCompletion ==
    { <<"starting", "active">>, <<"starting", "failed">>,
      <<"active", "processing">>, <<"active", "failed">>,
      <<"processing", "failed">> }

StateTransitions ==
    { <<"starting", "active">>, <<"starting", "failed">>,
      <<"active", "processing">>, <<"active", "failed">>,
      <<"processing", "completed">>, <<"processing", "failed">> }

(* A slot of the repository that holds no row yet. *)
NoRecording ==
    [ sessionId |-> None, egressId |-> None, status |-> "none",
      storageBucket |-> None, storagePath |-> None, playlistUrl |-> None,
      durationSeconds |-> None, fileSizeBytes |-> None,
      startedAt |-> None, endedAt |-> None,
      failureReason |-> None, lastOrdinal |-> 0 ]

(* A new row: status defaults to 'starting', storage_bucket and            *)
(* storage_path are NOT NULL, every other column is nullable.              *)
NewRecording_NoStorage(sessionId) ==
    [ NoRecording EXCEPT !.sessionId = Some(sessionId), !.status = "starting" ]

NewRecording(sessionId) ==
    [ NoRecording EXCEPT
        !.sessionId = Some(sessionId),
        !.status = "starting",
        !.storageBucket = Some(S3_BUCKET_RECORDINGS),
        !.storagePath = Some(FilenamePrefix(sessionId)) ]

(* --------------------------- gateway events ---------------------------- *)
EventKinds == {"started", "ended", "failed"}

(* The state each kind of gateway event asks for. *)
EventTarget(kind) ==
    CASE kind = "started" -> "active"
      [] kind = "ended" -> "completed"
      [] kind = "failed" -> "failed"

DerivePlaybackUrl(bucket, path) == <<bucket>> \o path \o <<PlaylistName>>

(* Attributes carried by the `ended` webhook of the job of a session. *)
EndedAttributes(sessionId) ==
    [ bucket |-> S3_BUCKET_RECORDINGS, path |-> FilenamePrefix(sessionId),
      durationSeconds |-> 180, fileSizeBytes |-> 180 * 50000 ]

(* The fields an accepted event records. *)
ApplyEvent(rec, ev) ==
    CASE ev.kind = "started" ->
           [ rec EXCEPT !.status = "active",
                        !.startedAt = Some(ev.timestamp),
                        !.lastOrdinal = ev.ordinal ]
      [] ev.kind = "ended" ->
           LET a == EndedAttributes(rec.sessionId[1]) IN
           [ rec EXCEPT !.status = "completed",
                        !.endedAt = Some(ev.timestamp),
                        !.storageBucket = Some(a.bucket),
                        !.storagePath = Some(a.path),
                        !.playlistUrl = Some(DerivePlaybackUrl(a.bucket, a.path)),
                        !.durationSeconds = Some(a.durationSeconds),
                        !.fileSizeBytes = Some(a.fileSizeBytes),
                        !.lastOrdinal = ev.ordinal ]
      [] ev.kind = "failed" ->
           [ rec EXCEPT !.status = "failed",
                        !.failureReason = Some("egress_failed"),
                        !.lastOrdinal = ev.ordinal ]

(* The pure transition function of handleGatewayEvent: an event that is   *)
(* the one applied last (same ordinal) or that matches no valid transition  *)
(* of the current state is rejected and the Recording is returned as it is. *)
Transition_Advance(rec, ev) ==
    IF rec.status = "starting" /\ ev.kind = "started" THEN ApplyEvent(rec, ev)
    ELSE IF rec.status = "active" /\ ev.kind = "started"
         THEN [ rec EXCEPT !.status = "processing" ]
    ELSE rec

Transition(rec, ev) ==
    IF rec.status = "none" THEN rec
    ELSE IF ev.ordinal = rec.lastOrdinal THEN rec
    ELSE IF <<rec.status, EventTarget(ev.kind)>> \notin StateTransitions THEN rec
    ELSE ApplyEvent(rec, ev)

(* ------------------------- JavaScript numbers -------------------------- *)
(* Positions are JavaScript numbers: IEEE-754 binary64.  A non-negative    *)
(* number is held exactly as fixed-point digits: d[1] is its integer part  *)
(* and d[2..Digits] are its fraction in base 2^DigitBits.  Every           *)
(* arithmetic result is rounded to Precision significant bits, to nearest  *)
(* and ties to even, as the language does.                                 *)
Precision == 53
DigitBits == 20
Digits == 5
Base == 2 ^ DigitBits

Number(n) == [ i \in 1..Digits |-> IF i = 1 THEN n ELSE 0 ]

LessOrEqual(a, b) ==
    \/ a = b
    \/ \E i \in 1..Digits : a[i] < b[i] /\ \A j \in 1..(i - 1) : a[j] = b[j]

RECURSIVE BitLength(_)
BitLength(n) == IF n = 0 THEN 0 ELSE 1 + BitLength(n \div 2)

RECURSIVE AddAt(_, _, _)
AddAt(d, j, amount) ==
    IF j > 1 /\ d[j] + amount >= Base
    THEN AddAt([ d EXCEPT ![j] = d[j] + amount - Base ], j - 1, 1)
    ELSE [ d EXCEPT ![j] = d[j] + amount ]

(* d with whatever follows it (sticky: something non-zero does) rounded to *)
(* the nearest number of Precision significant bits.                       *)
RoundToDouble(d, sticky) ==
    IF d[1] = 0 /\ d[2] = 0 THEN Number(0)
    ELSE LET F == IF d[1] > 0 THEN Precision - BitLength(d[1])
                  ELSE Precision + DigitBits - BitLength(d[2])
             j == 1 + (F + DigitBits - 1) \div DigitBits
             k == F - DigitBits * (j - 2)
             unit == 2 ^ (DigitBits - k)
             low == d[j] % unit
             first == IF k < DigitBits THEN low * (2 ^ k)
                      ELSE IF j < Digits THEN d[j + 1] ELSE 0
             from == IF k < DigitBits THEN j + 1 ELSE j + 2
             rest == sticky \/ \E i \in from..Digits : d[i] # 0
             odd == (d[j] \div unit) % 2 = 1
             up == \/ first > Base \div 2
                   \/ first = Base \div 2 /\ (rest \/ odd)
             kept == [ i \in 1..Digits |->
                         IF i < j THEN d[i] ELSE IF i = j THEN d[j] - low ELSE 0 ]
         IN  IF up THEN AddAt(kept, j, unit) ELSE kept

(* seekToMs: ms / 1000, for a whole number of milliseconds. *)
MsToSeconds(ms) ==
    LET r1 == ms % 1000
        r2 == (r1 * Base) % 1000
        r3 == (r2 * Base) % 1000
        r4 == (r3 * Base) % 1000
        r5 == (r4 * Base) % 1000
    IN  RoundToDouble(<< ms \div 1000, (r1 * Base) \div 1000, (r2 * Base) \div 1000,
                         (r3 * Base) \div 1000, (r4 * Base) \div 1000 >>, r5 # 0)

(* onTimeUpdate(state.currentTime * 1000). *)
SecondsToMs(t) ==
    LET v5 == t[5] * 1000
        v4 == t[4] * 1000 + v5 \div Base
        v3 == t[3] * 1000 + v4 \div Base
        v2 == t[2] * 1000 + v3 \div Base
        v1 == t[1] * 1000 + v2 \div Base
    IN  RoundToDouble(<< v1, v2 % Base, v3 % Base, v4 % Base, v5 % Base >>, FALSE)

(* ----------------------------- transcripts ----------------------------- *)
MaxTranscript == 3
MaxSeeks == 2

(* timestampMs of the messages, and where the clock of the player is read. *)
Timestamps == {0, 1001, 2000}
Positions == Timestamps \cup {3000}

SortedTimes ==
    { ts \in UNION { [1..n -> Timestamps] : n \in 0..MaxTranscript } :
        \A i \in 1..(Len(ts) - 1) : ts[i] <= ts[i + 1] }

(* TranscriptMessage[], ordered by timestampMs. *)
Transcripts ==
    { [ i \in 1..Len(ts) |-> [ id |-> i, timestampMs |-> ts[i] ] ] : ts \in SortedTimes }

(* transcript.reduce((activeIdx, msg, idx) => ..., -1): idx counts from 0. *)
RECURSIVE Reduce_Strict(_, _, _, _)
Reduce_Strict(transcript, timeMs, idx, activeIdx) ==
    IF idx >= Len(transcript) THEN activeIdx
    ELSE Reduce_Strict(transcript, timeMs, idx + 1,
                IF /\ LessOrEqual(Number(transcript[idx + 1].timestampMs), timeMs)
                   /\ Number(transcript[idx + 1].timestampMs) # timeMs
                THEN idx ELSE activeIdx)

RECURSIVE Reduce_Reversed(_, _, _, _)
Reduce_Reversed(transcript, timeMs, idx, activeIdx) ==
    IF idx >= Len(transcript) THEN activeIdx
    ELSE Reduce_Reversed(transcript, timeMs, idx + 1,
                IF LessOrEqual(timeMs, Number(transcript[idx + 1].timestampMs))
                THEN idx ELSE activeIdx)

RECURSIVE Reduce(_, _, _, _)
Reduce(transcript, timeMs, idx, activeIdx) ==
    IF idx >= Len(transcript) THEN activeIdx
    ELSE Reduce(transcript, timeMs, idx + 1,
                IF LessOrEqual(Number(transcript[idx + 1].timestampMs), timeMs)
                THEN idx ELSE activeIdx)

ActiveMessageIndex(transcript, timeMs) == Reduce(transcript, timeMs, 0, -1)

(* TranscriptMessageItem.handleClick: onSeek(message.timestampMs). *)
SeekTarget_WholeSeconds(message) == (message.timestampMs \div 1000) * 1000

SeekTarget(message) == message.timestampMs

(* --------------------------- web player state -------------------------- *)
VARIABLES
    transcript,         \* PlaybackView: recording.transcript
    videoCurrentTime,   \* the video element: currentTime, in seconds
    hookCurrentTime,    \* useHlsPlayer: state.currentTime
    timeEffect,         \* VideoPlayer: its onTimeUpdate effect, "idle" or "pending"
    currentTimeMs,      \* PlaybackView: currentTimeMs
    activeMessageIndex, \* SyncedTranscript: the index of the last render
    scrolledTo,         \* SyncedTranscript: the message last scrolled into view
    wasClicked,         \* TranscriptMessageItem: the items whose wasClicked is set
    playerCommands,     \* seek commands handed to the player, oldest first
    staleSample         \* history: a seek was issued after hookCurrentTime was read

playbackVars == << transcript, videoCurrentTime, hookCurrentTime, timeEffect,
                   currentTimeMs, activeMessageIndex, scrolledTo, wasClicked,
                   playerCommands, staleSample >>

(* PlaybackView mounted on a playable recording: useState(0), nothing      *)
(* played and nothing clicked yet.                                         *)
PlaybackMounted(T) ==
    /\ transcript = T
    /\ videoCurrentTime = Number(0)
    /\ hookCurrentTime = Number(0)
    /\ timeEffect = "idle"
    /\ currentTimeMs = Number(0)
    /\ activeMessageIndex = ActiveMessageIndex(T, Number(0))
    /\ scrolledTo = -1
    /\ wasClicked = {}
    /\ playerCommands = << >>
    /\ staleSample = FALSE

(* ------------------------------ HLS player ----------------------------- *)
MaxErrors == 2

(* The playlists a VideoPlayer is given, what the browser can play and the *)
(* data.type of an error event of hls.js.                                  *)
Sources == {"rec-001/playlist.m3u8", "rec-002/playlist.m3u8"}
Support == {"hls.js", "native", "none"}
ErrorTypes == {"networkError", "mediaError", "otherError"}

VARIABLES
    src,            \* useHlsPlayer: the src it was last rendered with
    support,        \* the browser: Hls.isSupported(), else video.canPlayType
    initEffect,     \* useHlsPlayer: its [src] effect, "idle" or "pending"
    hls,            \* the Hls instance: "none", "loading", "parsed" or "destroyed"
    isLoading,      \* useHlsPlayer: state.isLoading
    isReady,        \* useHlsPlayer: state.isReady
    isPlaying,      \* useHlsPlayer: state.isPlaying
    error,          \* useHlsPlayer: state.error, None or an Error object
    errorCount,     \* Error objects created so far
    recoveryCalls,  \* startLoad and recoverMediaError calls made on the instance
    errorEffect,    \* VideoPlayer: its onError effect, "idle" or "pending"
    onErrorCalls    \* errors handed to onError since the last initialization

adapterVars == << src, support, initEffect, hls, isLoading, isReady, isPlaying,
                  error, errorCount, recoveryCalls, errorEffect, onErrorCalls >>

(* useHlsPlayer(s) after its first render: the initial state of useState,  *)
(* the [src] effect still to run.                                          *)
AdapterMounted(s, browser) ==
    /\ src = s
    /\ support = browser
    /\ initEffect = IF s = None THEN "idle" ELSE "pending"
    /\ hls = "none"
    /\ isLoading = FALSE
    /\ isReady = FALSE
    /\ isPlaying = FALSE
    /\ error = None
    /\ errorCount = 0
    /\ recoveryCalls = << >>
    /\ errorEffect = "idle"
    /\ onErrorCalls = << >>

(* --------------------------- player session --------------------------- *)
MaxSessions == 2

VARIABLES
    mounted,        \* PlaybackView: VideoPlayer and SyncedTranscript are rendered
    session,        \* the number of the playback session, counted from its mount
    liveInstances,  \* the sources whose Hls instance has not been destroyed
    retryTimer,     \* hls.js: a retry started by startLoad() is outstanding
    listening,      \* useHlsPlayer: its listeners are attached to the video
    playing,        \* VideoPlayer: state.isPlaying as its effects see it
    isHovering,     \* VideoPlayer: isHovering
    showControls,   \* VideoPlayer: showControls
    hideTimer,      \* VideoPlayer: the 3000 ms timer is pending
    clicked,        \* TranscriptMessageItem: the messages whose wasClicked is true
    clickTimers,    \* TranscriptMessageItem: the pending 500 ms timers
    playPromises,   \* controls.play(): the sessions with a pending video.play()
    lateCallbacks   \* callbacks that ran for a session after it was disposed

sessionVars == << mounted, session, liveInstances, retryTimer, listening, playing,
                  isHovering, showControls, hideTimer, clicked, clickTimers,
                  playPromises, lateCallbacks >>

(* The components of a playback session after their first render and their *)
(* effects, with the source s, or none of them when s is None.             *)
SessionMounted(s, n) ==
    /\ mounted = (s # None)
    /\ session = n
    /\ liveInstances = IF s = None THEN {} ELSE {s[1]}
    /\ retryTimer = FALSE
    /\ listening = (s # None)
    /\ playing = FALSE
    /\ isHovering = FALSE
    /\ showControls = TRUE
    /\ hideTimer = FALSE
    /\ clicked = {}
    /\ clickTimers = {}
    /\ playPromises = {}
    /\ lateCallbacks = {}

(* -------------------------- recording pages --------------------------- *)
MaxTotal == 5
MaxIdChanges == 2

(* RecordingList({ pageSize }). *)
PageSize == 2

RecordingStatuses == << "starting", "active", "processing", "completed", "failed" >>
PlaybackUrls == << None, Some("https://test-streams.mux.dev/x36xhzz/x36xhzz.m3u8"), Some("") >>

(* The recordings the provider serves, in their order: the statuses and    *)
(* the playbackUrls are taken in rounds, the first recording being a       *)
(* completed one with a URL.                                               *)
Catalog(n) ==
    [ id |-> n,
      status |-> RecordingStatuses[((n + 2) % 5) + 1],
      playbackUrl |-> PlaybackUrls[(n % 3) + 1] ]

(* The ids a recording page is opened with; 0 is the id of no recording. *)
RecordingIds == 0..MaxTotal

VARIABLES
    route,          \* the page that is open: "none", "list" or "detail"
    catalogTotal,   \* the provider: the number of recordings it has
    listData,       \* RecordingList: data, None or a RecordingListResponse
    listPage,       \* RecordingList: page
    listIsLoading,  \* RecordingList: isLoading
    listError,      \* RecordingList: error, None or the message of the Error
    listFetches,    \* the pages of the fetchRecordings calls in flight
    recordingId,    \* PlaybackView: the recordingId it is rendered with
    recording,      \* PlaybackView: recording, None or a RecordingDetail
    viewIsLoading,  \* PlaybackView: isLoading
    viewError,      \* PlaybackView: error, None or the message of the Error
    loads,          \* the load() calls in flight, with the state of their signal
    idChanges       \* the changes of recordingId since the page was opened

browseVars == << route, catalogTotal, listData, listPage, listIsLoading, listError,
                 listFetches, recordingId, recording, viewIsLoading, viewError,
                 loads, idChanges >>

(* RecordingList after its first render and its effect: page 1 is being   *)
(* fetched.                                                                *)
ListMounted ==
    /\ listData = None
    /\ listPage = 1
    /\ listIsLoading = TRUE
    /\ listError = None
    /\ listFetches = {1}

(* No RecordingList is rendered. *)
ListUnmounted ==
    /\ listData = None
    /\ listPage = 1
    /\ listIsLoading = FALSE
    /\ listError = None
    /\ listFetches = {}

(* PlaybackView({ recordingId }) after its first render and its effect:    *)
(* the recording is being loaded.                                          *)
ViewMounted(id) ==
    /\ recordingId = id
    /\ recording = None
    /\ viewIsLoading = TRUE
    /\ viewError = None
    /\ loads = { [ id |-> id, n |-> 0, aborted |-> FALSE ] }
    /\ idChanges = 0

(* No PlaybackView is rendered. *)
ViewUnmounted ==
    /\ recordingId = 0
    /\ recording = None
    /\ viewIsLoading = FALSE
    /\ viewError = None
    /\ loads = {}
    /\ idChanges = 0

BrowseIdle == route = "none" /\ catalogTotal = 0 /\ ListUnmounted /\ ViewUnmounted

(* --------------------------- recording state -------------------------- *)
MaxTimers == 4

VARIABLES
    recState,       \* useRecordingState: state
    recTimers,      \* the pending 1000 ms timers, by the state their callback sets
    isHovered       \* RecordingIndicator: isHovered

recordingVars == << recState, recTimers, isHovered >>

(* useRecordingState() and RecordingIndicator after their first render. *)
RecordingMounted ==
    /\ recState = "idle"
    /\ recTimers = << >>
    /\ isHovered = FALSE

(* ------------------------------- token -------------------------------- *)
MaxCalls == 3

(* The rooms and the participant of a TokenRequest. *)
TokenRequests ==
    { [ roomName |-> r, participantName |-> "alice" ] : r \in {"room-1", "room-2"} }

VARIABLES
    tokenState,     \* useToken: state, { token, isLoading, error }
    tokenCalls,     \* the fetchToken calls in flight
    callCount       \* the fetchToken calls made so far

tokenVars == << tokenState, tokenCalls, callCount >>

(* useToken() after its first render. *)
TokenMounted ==
    /\ tokenState = [ token |-> None, isLoading |-> FALSE, error |-> None ]
    /\ tokenCalls = {}
    /\ callCount = 0

hookVars == << recordingVars, tokenVars >>

uiVars == << sessionVars, browseVars, hookVars >>

UiIdle == SessionMounted(None, 0) /\ BrowseIdle /\ RecordingMounted /\ TokenMounted

webVars == << playbackVars, adapterVars, uiVars >>

(* No recording page is open. *)
WebUnmounted == PlaybackMounted(<< >>) /\ AdapterMounted(None, "none") /\ UiIdle

(* ------------------------------- state --------------------------------- *)
VARIABLES
    recordings,     \* repository: recording id -> Recording row
    lock,           \* per-Recording mutual exclusion: "free" or its holder
    startTask,      \* requestStart invocation of each recording
    startCalls,     \* gateway start invocations made for each requestStart
    stopTask,       \* requestStop invocation in flight on each recording
    stopResult,     \* what the last requestStop returned to its caller
    evTask,         \* handleGatewayEvent invocation in flight on each recording
    job,            \* gateway: state of the egress job of each recording
    pending,        \* gateway: events emitted and not delivered yet
    seen            \* gateway: events delivered at least once

vars == << recordings, lock, startTask, startCalls, stopTask, stopResult,
           evTask, job, pending, seen >>

IdleTask == [ pc |-> "idle", ev |-> None, snap |-> NoRecording ]

ControllerInit ==
    /\ recordings = [ r \in RecIds |-> NoRecording ]
    /\ lock = [ r \in RecIds |-> "free" ]
    /\ startTask = [ r \in RecIds |-> "none" ]
    /\ startCalls = [ r \in RecIds |-> 0 ]
    /\ stopTask = [ r \in RecIds |-> IdleTask ]
    /\ stopResult = [ r \in RecIds |-> "none" ]
    /\ evTask = [ r \in RecIds |-> IdleTask ]
    /\ job = [ r \in RecIds |-> "none" ]
    /\ pending = [ r \in RecIds |-> {} ]
    /\ seen = [ r \in RecIds |-> {} ]

Init == ControllerInit /\ WebUnmounted

(* The per-Recording lock is taken only when nobody holds it. *)
LockFree_Unlocked(r) == TRUE

LockFree(r) == lock[r] = "free"

(* ------------------------------ gateway -------------------------------- *)
(* The next event of a job: ordinal and timestamp follow emission order. *)
NextEvent(r, kind) ==
    [ kind |-> kind,
      ordinal |-> Cardinality(pending[r] \cup seen[r]) + 1,
      timestamp |-> Cardinality(pending[r] \cup seen[r]) + 1 ]

(* The job fails on its own, while capturing or while finishing. *)
GatewayFail(r) ==
    /\ job[r] \in {"running", "stopping"}
    /\ job' = [ job EXCEPT ![r] = "failed" ]
    /\ pending' = [ pending EXCEPT ![r] = @ \cup { NextEvent(r, "failed") } ]
    /\ UNCHANGED << recordings, lock, startTask, startCalls, stopTask, stopResult,
                    evTask, seen >>
    /\ UNCHANGED webVars

(* A stopped job finishes its upload and reports `ended`. *)
GatewayEnd(r) ==
    /\ job[r] = "stopping"
    /\ job' = [ job EXCEPT ![r] = "ended" ]
    /\ pending' = [ pending EXCEPT ![r] = @ \cup { NextEvent(r, "ended") } ]
    /\ UNCHANGED << recordings, lock, startTask, startCalls, stopTask, stopResult,
                    evTask, seen >>
    /\ UNCHANGED webVars

(* ----------------------------- requestStart ---------------------------- *)
(* Precondition of requestStart: no non-terminal Recording of the session. *)
CanStart_Always(s) == TRUE

CanStart(s) ==
    \A r \in RecIds :
        ~ (recordings[r].sessionId = Some(s) /\ recordings[r].status \in NonTerminal)

FreeIds == { r \in RecIds : recordings[r].status = "none" }

(* requestStart(sessionId) with the precondition met: the Recording is      *)
(* created in STARTING and the gateway call is about to be made.            *)
RequestStartCreate(s) ==
    /\ CanStart(s)
    /\ FreeIds # {}
    /\ LET r == CHOOSE x \in FreeIds : \A y \in FreeIds : x <= y IN
        /\ recordings' = [ recordings EXCEPT ![r] = NewRecording(s) ]
        /\ lock' = [ lock EXCEPT ![r] = "start" ]
        /\ startTask' = [ startTask EXCEPT ![r] = "calling" ]
    /\ UNCHANGED << startCalls, stopTask, stopResult, evTask, job, pending, seen >>
    /\ UNCHANGED webVars

(* requestStart(sessionId) with the precondition not met: the call is       *)
(* refused, nothing is created and the gateway is not called.               *)
RequestStartReject(s) ==
    /\ ~ CanStart(s)
    /\ UNCHANGED vars
    /\ UNCHANGED webVars

(* Gateway start(sessionId, outputPathPrefix): a job id, or an error. *)
GatewayStartCall(r) ==
    /\ startTask[r] = "calling"
    /\ startCalls' = [ startCalls EXCEPT ![r] = @ + 1 ]
    /\ \/ /\ startTask' = [ startTask EXCEPT ![r] = "ret_ok" ]
          /\ job' = [ job EXCEPT ![r] = "running" ]
          /\ pending' = [ pending EXCEPT ![r] = @ \cup { NextEvent(r, "started") } ]
       \/ /\ startTask' = [ startTask EXCEPT ![r] = "ret_err" ]
          /\ UNCHANGED << job, pending >>
    /\ UNCHANGED << recordings, lock, stopTask, stopResult, evTask, seen >>
    /\ UNCHANGED webVars

(* requestStart returns: the job id is recorded, or the Recording is moved  *)
(* to FAILED with the reason and the failure is reported to the caller.     *)
RequestStartFinish_Retry(r) ==
    /\ \/ /\ startTask[r] = "ret_ok"
          /\ recordings' = [ recordings EXCEPT ![r].egressId = Some(r) ]
          /\ startTask' = [ startTask EXCEPT ![r] = "ok" ]
          /\ lock' = [ lock EXCEPT ![r] = "free" ]
       \/ /\ startTask[r] = "ret_err"
          /\ startCalls[r] >= 2
          /\ recordings' = [ recordings EXCEPT
                               ![r].status = "failed",
                               ![r].failureReason = Some("egress_start_error") ]
          /\ startTask' = [ startTask EXCEPT ![r] = "error" ]
          /\ lock' = [ lock EXCEPT ![r] = "free" ]
       \/ /\ startTask[r] = "ret_err"
          /\ startCalls[r] < 2
          /\ startTask' = [ startTask EXCEPT ![r] = "calling" ]
          /\ UNCHANGED << recordings, lock >>
    /\ UNCHANGED << startCalls, stopTask, stopResult, evTask, job, pending, seen >>
    /\ UNCHANGED webVars

RequestStartFinish(r) ==
    /\ \/ /\ startTask[r] = "ret_ok"
          /\ recordings' = [ recordings EXCEPT ![r].egressId = Some(r) ]
          /\ startTask' = [ startTask EXCEPT ![r] = "ok" ]
       \/ /\ startTask[r] = "ret_err"
          /\ recordings' = [ recordings EXCEPT
                               ![r].status = "failed",
                               ![r].failureReason = Some("egress_start_error") ]
          /\ startTask' = [ startTask EXCEPT ![r] = "error" ]
    /\ lock' = [ lock EXCEPT ![r] = "free" ]
    /\ UNCHANGED << startCalls, stopTask, stopResult, evTask, job, pending, seen >>
    /\ UNCHANGED webVars

(* ----------------------------- requestStop ----------------------------- *)
(* A caller issues requestStop(recordingId): the command takes the         *)
(* Recording's lock and reads the row; it goes on to the gateway only when  *)
(* the Recording is ACTIVE, and is refused otherwise.                       *)
RequestStopBegin(r) ==
    /\ recordings[r].status # "none"
    /\ stopTask[r].pc = "idle"
    /\ LockFree(r)
    /\ \/ /\ recordings[r].status = "active"
          /\ stopTask' = [ stopTask EXCEPT ![r] =
                             [ pc |-> "calling", ev |-> None, snap |-> recordings[r] ] ]
          /\ lock' = [ lock EXCEPT ![r] = "stop" ]
          /\ UNCHANGED stopResult
       \/ /\ recordings[r].status # "active"
          /\ stopResult' = [ stopResult EXCEPT ![r] = "rejected" ]
          /\ UNCHANGED << lock, stopTask >>
    /\ UNCHANGED << recordings, startTask, startCalls, evTask, job, pending, seen >>
    /\ UNCHANGED webVars

(* Gateway stop(jobId) acknowledges: the job stops capturing. *)
GatewayStopAck(r) ==
    /\ stopTask[r].pc = "calling"
    /\ job[r] = "running"
    /\ job' = [ job EXCEPT ![r] = "stopping" ]
    /\ stopTask' = [ stopTask EXCEPT ![r].pc = "ret_ok" ]
    /\ UNCHANGED << recordings, lock, startTask, startCalls, stopResult, evTask,
                    pending, seen >>
    /\ UNCHANGED webVars

(* Gateway stop(jobId) fails: a transient error, or no running job. *)
GatewayStopError(r) ==
    /\ stopTask[r].pc = "calling"
    /\ stopTask' = [ stopTask EXCEPT ![r].pc = "ret_err" ]
    /\ UNCHANGED << recordings, lock, startTask, startCalls, stopResult, evTask,
                    job, pending, seen >>
    /\ UNCHANGED webVars

(* requestStop returns: after an ack the Recording is saved as PROCESSING;  *)
(* after an error nothing is saved and the error goes to the caller.        *)
RequestStopFinish_FailOnError(r) ==
    /\ \/ /\ stopTask[r].pc = "ret_ok"
          /\ recordings' = [ recordings EXCEPT
                               ![r] = [ stopTask[r].snap EXCEPT !.status = "processing" ] ]
          /\ stopResult' = [ stopResult EXCEPT ![r] = "ok" ]
       \/ /\ stopTask[r].pc = "ret_err"
          /\ recordings' = [ recordings EXCEPT
                               ![r] = [ stopTask[r].snap EXCEPT
                                          !.status = "failed",
                                          !.failureReason = Some("egress_stop_error") ] ]
          /\ stopResult' = [ stopResult EXCEPT ![r] = "error" ]
    /\ stopTask' = [ stopTask EXCEPT ![r] = IdleTask ]
    /\ lock' = [ lock EXCEPT ![r] = "free" ]
    /\ UNCHANGED << startTask, startCalls, evTask, job, pending, seen >>
    /\ UNCHANGED webVars

RequestStopFinish_NotOptimistic(r) ==
    /\ \/ /\ stopTask[r].pc = "ret_ok"
          /\ stopResult' = [ stopResult EXCEPT ![r] = "ok" ]
          /\ UNCHANGED recordings
       \/ /\ stopTask[r].pc = "ret_err"
          /\ stopResult' = [ stopResult EXCEPT ![r] = "error" ]
          /\ UNCHANGED recordings
    /\ stopTask' = [ stopTask EXCEPT ![r] = IdleTask ]
    /\ lock' = [ lock EXCEPT ![r] = "free" ]
    /\ UNCHANGED << startTask, startCalls, evTask, job, pending, seen >>
    /\ UNCHANGED webVars

RequestStopFinish(r) ==
    /\ \/ /\ stopTask[r].pc = "ret_ok"
          /\ recordings' = [ recordings EXCEPT
                               ![r] = [ stopTask[r].snap EXCEPT !.status = "processing" ] ]
          /\ stopResult' = [ stopResult EXCEPT ![r] = "ok" ]
       \/ /\ stopTask[r].pc = "ret_err"
          /\ stopResult' = [ stopResult EXCEPT ![r] = "error" ]
          /\ UNCHANGED recordings
    /\ stopTask' = [ stopTask EXCEPT ![r] = IdleTask ]
    /\ lock' = [ lock EXCEPT ![r] = "free" ]
    /\ UNCHANGED << startTask, startCalls, evTask, job, pending, seen >>
    /\ UNCHANGED webVars

(* -------------------------- handleGatewayEvent ------------------------- *)
(* The gateway delivers a webhook (a first delivery, in any order, or a    *)
(* repeated delivery of an event delivered before); the handler takes the   *)
(* Recording's lock and reads the row.                                      *)
HandleGatewayEventBegin(r, ev) ==
    /\ evTask[r].pc = "idle"
    /\ LockFree(r)
    /\ \/ /\ ev \in pending[r]
          /\ pending' = [ pending EXCEPT ![r] = @ \ {ev} ]
          /\ seen' = [ seen EXCEPT ![r] = @ \cup {ev} ]
       \/ /\ ev \in seen[r]
          /\ UNCHANGED << pending, seen >>
    /\ evTask' = [ evTask EXCEPT ![r] =
                     [ pc |-> "loaded", ev |-> Some(ev), snap |-> recordings[r] ] ]
    /\ lock' = [ lock EXCEPT ![r] = "event" ]
    /\ UNCHANGED << recordings, startTask, startCalls, stopTask, stopResult, job >>
    /\ UNCHANGED webVars

(* The handler applies the transition function to the row it read and saves *)
(* the result; a rejected event saves nothing and raises nothing.           *)
HandleGatewayEventApply(r) ==
    /\ evTask[r].pc = "loaded"
    /\ LET new == Transition(evTask[r].snap, evTask[r].ev[1]) IN
        IF new # evTask[r].snap
        THEN recordings' = [ recordings EXCEPT ![r] = new ]
        ELSE UNCHANGED recordings
    /\ evTask' = [ evTask EXCEPT ![r] = IdleTask ]
    /\ lock' = [ lock EXCEPT ![r] = "free" ]
    /\ UNCHANGED << startTask, startCalls, stopTask, stopResult, job, pending, seen >>
    /\ UNCHANGED webVars

(* ---------------------------- specification ---------------------------- *)
Next ==
    \/ \E s \in Sessions : RequestStartCreate(s)
    \/ \E s \in Sessions : RequestStartReject(s)
    \/ \E r \in RecIds : GatewayStartCall(r)
    \/ \E r \in RecIds : RequestStartFinish(r)
    \/ \E r \in RecIds : RequestStopBegin(r)
    \/ \E r \in RecIds : GatewayStopAck(r)
    \/ \E r \in RecIds : GatewayStopError(r)
    \/ \E r \in RecIds : RequestStopFinish(r)
    \/ \E r \in RecIds : GatewayFail(r)
    \/ \E r \in RecIds : GatewayEnd(r)
    \/ \E r \in RecIds : \E ev \in pending[r] \cup seen[r] :
          HandleGatewayEventBegin(r, ev)
    \/ \E r \in RecIds : HandleGatewayEventApply(r)

Spec == Init /\ [][Next]_vars

(* A step of an invocation that holds the lock of r: a gateway call that    *)
(* returns, or the handler's write and return.                              *)
HandlerStep(r) ==
    \/ GatewayStartCall(r)
    \/ RequestStartFinish(r)
    \/ GatewayStopAck(r)
    \/ GatewayStopError(r)
    \/ RequestStopFinish(r)
    \/ HandleGatewayEventApply(r)

(* Scheduling the controller relies on: every call of the gateway returns   *)
(* and every handler that holds the lock runs to its end, the lock is       *)
(* granted fairly, each event of a job is delivered at least once, a        *)
(* stopped job ends or fails, a stop is requested for an ACTIVE Recording,  *)
(* and a repeated stop of a running job is acknowledged in the end.         *)
Fairness ==
    \A r \in RecIds :
        /\ WF_vars(HandlerStep(r))
        /\ WF_vars(GatewayEnd(r))
        /\ SF_vars(RequestStopBegin(r) /\ recordings[r].status = "active")
        /\ SF_vars(GatewayStopAck(r))
        /\ SF_vars(\E ev \in pending[r] : HandleGatewayEventBegin(r, ev))

LiveSpec == Init /\ [][Next]_vars /\ Fairness

(* ------------------------------ read model ---------------------------- *)
(* The Recording summary served to the player: playbackUrl is the playlist  *)
(* URL of the row.                                                          *)
Summary(rec) ==
    [ status |-> rec.status,
      durationSeconds |-> rec.durationSeconds,
      playbackUrl |-> rec.playlistUrl ]

(* The summaries the development API serves. *)
MOCK_RECORDINGS ==
    { [ id |-> "rec-001", status |-> "completed", durationSeconds |-> Some(180),
        playbackUrl |-> Some("https://test-streams.mux.dev/x36xhzz/x36xhzz.m3u8") ],
      [ id |-> "rec-002", status |-> "completed", durationSeconds |-> Some(245),
        playbackUrl |-> Some("https://test-streams.mux.dev/x36xhzz/x36xhzz.m3u8") ],
      [ id |-> "rec-003", status |-> "processing", durationSeconds |-> None,
        playbackUrl |-> None ],
      [ id |-> "rec-004", status |-> "active", durationSeconds |-> None,
        playbackUrl |-> None ],
      [ id |-> "rec-005", status |-> "failed", durationSeconds |-> None,
        playbackUrl |-> None ] }

(* -------------------------- synchronized playback ---------------------- *)
(* The clock of the video element moves: playback, or a seek made with the *)
(* controls of the player.                                                 *)
VideoClock(p) ==
    /\ MsToSeconds(p) # videoCurrentTime
    /\ videoCurrentTime' = MsToSeconds(p)
    /\ UNCHANGED << transcript, hookCurrentTime, timeEffect, currentTimeMs,
                    activeMessageIndex, scrolledTo, wasClicked, playerCommands,
                    staleSample >>
    /\ UNCHANGED << vars, adapterVars, uiVars >>

(* useHlsPlayer.handleTimeUpdate, on the timeupdate event of the video:    *)
(* state.currentTime becomes video.currentTime, and the onTimeUpdate       *)
(* effect of VideoPlayer is due when the value differs.                    *)
HookHandleTimeUpdate ==
    /\ hookCurrentTime' = videoCurrentTime
    /\ timeEffect' = IF videoCurrentTime # hookCurrentTime THEN "pending" ELSE timeEffect
    /\ staleSample' = FALSE
    /\ UNCHANGED << transcript, videoCurrentTime, currentTimeMs, activeMessageIndex,
                    scrolledTo, wasClicked, playerCommands >>
    /\ UNCHANGED << vars, adapterVars, uiVars >>

(* handleTranscriptSeek(timestampMs): video.seekToMs(timestampMs), or the  *)
(* assignment of video.currentTime when seekToMs is not installed yet.     *)
SeekCommand(timestampMs) == [ op |-> "seek", timestampMs |-> timestampMs ]

(* The onTimeUpdate effect of VideoPlayer runs: PlaybackView.handleTimeUpdate *)
(* stores the position, SyncedTranscript renders with the new active index *)
(* and its auto-scroll effect scrolls to the active message when that one  *)
(* is out of view; the container shows one message at a time.              *)
OnTimeUpdate_SeeksBack ==
    /\ timeEffect = "pending"
    /\ timeEffect' = "idle"
    /\ currentTimeMs' = SecondsToMs(hookCurrentTime)
    /\ activeMessageIndex' = ActiveMessageIndex(transcript, currentTimeMs')
    /\ playerCommands' = IF activeMessageIndex' >= 0
                         THEN Append(playerCommands,
                                SeekCommand(transcript[activeMessageIndex' + 1].timestampMs))
                         ELSE playerCommands
    /\ UNCHANGED << transcript, videoCurrentTime, hookCurrentTime, scrolledTo,
                    wasClicked, staleSample >>
    /\ UNCHANGED << vars, adapterVars, uiVars >>

OnTimeUpdate ==
    /\ timeEffect = "pending"
    /\ timeEffect' = "idle"
    /\ currentTimeMs' = SecondsToMs(hookCurrentTime)
    /\ activeMessageIndex' = ActiveMessageIndex(transcript, currentTimeMs')
    /\ LET isOutOfView == scrolledTo # activeMessageIndex'
       IN  scrolledTo' = IF activeMessageIndex' >= 0 /\ isOutOfView
                         THEN activeMessageIndex' ELSE scrolledTo
    /\ UNCHANGED << transcript, videoCurrentTime, hookCurrentTime, wasClicked,
                    playerCommands, staleSample >>
    /\ UNCHANGED << vars, adapterVars, uiVars >>

(* A click on the message of index i: handleClick sets wasClicked and      *)
(* calls onSeek, handleTranscriptSeek hands the seek to the player, and    *)
(* seek() assigns video.currentTime = ms / 1000.                           *)
TranscriptClick(i) ==
    /\ Len(playerCommands) < MaxSeeks
    /\ wasClicked' = wasClicked \cup {i}
    /\ playerCommands' = Append(playerCommands, SeekCommand(SeekTarget(transcript[i + 1])))
    /\ videoCurrentTime' = MsToSeconds(SeekTarget(transcript[i + 1]))
    /\ staleSample' = TRUE
    /\ UNCHANGED << transcript, hookCurrentTime, timeEffect, currentTimeMs,
                    activeMessageIndex, scrolledTo >>
    /\ UNCHANGED << vars, adapterVars, uiVars >>

(* The timer of handleClick fires: setWasClicked(false). *)
ClickAnimationEnd(i) ==
    /\ wasClicked' = wasClicked \ {i}
    /\ UNCHANGED << transcript, videoCurrentTime, hookCurrentTime, timeEffect,
                    currentTimeMs, activeMessageIndex, scrolledTo, playerCommands,
                    staleSample >>
    /\ UNCHANGED << vars, adapterVars, uiVars >>

PlaybackInit ==
    /\ ControllerInit
    /\ AdapterMounted(None, "none")
    /\ UiIdle
    /\ \E T \in Transcripts : PlaybackMounted(T)

PlaybackNext ==
    \/ \E p \in Positions : VideoClock(p)
    \/ HookHandleTimeUpdate
    \/ OnTimeUpdate
    \/ \E i \in 0..(Len(transcript) - 1) : TranscriptClick(i)
    \/ \E i \in wasClicked : ClickAnimationEnd(i)

PlaybackSpec == PlaybackInit /\ [][PlaybackNext]_playbackVars

(* ------------------------------ HLS player ----------------------------- *)
(* new Error(message): every Error is a new object. *)
NewError(message) == [ id |-> errorCount + 1, message |-> message ]

(* setState with an Error: the onError effect of VideoPlayer, which        *)
(* depends on state.error, is due.                                         *)
SetError(message) ==
    /\ errorCount < MaxErrors
    /\ error' = Some(NewError(message))
    /\ errorCount' = errorCount + 1
    /\ errorEffect' = "pending"

(* The VideoPlayer is rendered with another src. *)
SourceChange(s) ==
    /\ src # None
    /\ s # src
    /\ src' = s
    /\ initEffect' = "pending"
    /\ UNCHANGED << support, hls, isLoading, isReady, isPlaying, error, errorCount,
                    recoveryCalls, errorEffect, onErrorCalls >>
    /\ UNCHANGED << vars, playbackVars, uiVars >>

(* The [src] effect of useHlsPlayer: the cleanup of its last run destroys  *)
(* the old instance, then isLoading is set and the error cleared, and the  *)
(* source is loaded with hls.js, or natively, or not at all.               *)
InitEffect ==
    /\ initEffect = "pending"
    /\ initEffect' = "idle"
    /\ recoveryCalls' = << >>
    /\ onErrorCalls' = << >>
    /\ \/ /\ support = "hls.js"
          /\ hls' = "loading"
          /\ isLoading' = TRUE
          /\ error' = None
          /\ errorEffect' = IF error # None THEN "pending" ELSE errorEffect
          /\ UNCHANGED << isReady, errorCount >>
       \/ /\ support = "native"
          /\ hls' = "none"
          /\ isLoading' = FALSE
          /\ isReady' = TRUE
          /\ error' = None
          /\ errorEffect' = IF error # None THEN "pending" ELSE errorEffect
          /\ UNCHANGED errorCount
       \/ /\ support = "none"
          /\ hls' = "none"
          /\ isLoading' = FALSE
          /\ SetError(<< "HLS is not supported in this browser" >>)
          /\ UNCHANGED isReady
    /\ UNCHANGED << src, support, isPlaying >>
    /\ UNCHANGED << vars, playbackVars, uiVars >>

(* hls.on(Hls.Events.MANIFEST_PARSED). *)
ManifestParsed ==
    /\ hls = "loading"
    /\ hls' = "parsed"
    /\ isLoading' = FALSE
    /\ isReady' = TRUE
    /\ UNCHANGED << src, support, initEffect, isPlaying, error, errorCount,
                    recoveryCalls, errorEffect, onErrorCalls >>
    /\ UNCHANGED << vars, playbackVars, uiVars >>

(* hls.on(Hls.Events.ERROR) with data.fatal and data.type: a fatal error   *)
(* is stored, and then startLoad() is called for a network error,          *)
(* recoverMediaError() for a media error and destroy() for any other.      *)
HlsError(fatal, type) ==
    /\ hls \in {"loading", "parsed"}
    /\ IF fatal
       THEN /\ SetError(<< "HLS Error", type >>)
            /\ isLoading' = FALSE
            /\ CASE type = "networkError" ->
                      /\ recoveryCalls' = Append(recoveryCalls, "startLoad")
                      /\ UNCHANGED hls
                 [] type = "mediaError" ->
                      /\ recoveryCalls' = Append(recoveryCalls, "recoverMediaError")
                      /\ UNCHANGED hls
                 [] OTHER ->
                      /\ hls' = "destroyed"
                      /\ UNCHANGED recoveryCalls
       ELSE UNCHANGED << hls, isLoading, error, errorCount, recoveryCalls, errorEffect >>
    /\ UNCHANGED << src, support, initEffect, isReady, isPlaying, onErrorCalls >>
    /\ UNCHANGED << vars, playbackVars, uiVars >>

(* handlePlay, on the play event of the video. *)
VideoPlay ==
    /\ src # None
    /\ ~ isPlaying
    /\ isPlaying' = TRUE
    /\ UNCHANGED << src, support, initEffect, hls, isLoading, isReady, error,
                    errorCount, recoveryCalls, errorEffect, onErrorCalls >>
    /\ UNCHANGED << vars, playbackVars, uiVars >>

(* handlePause, on the pause event of the video. *)
VideoPause ==
    /\ isPlaying
    /\ isPlaying' = FALSE
    /\ UNCHANGED << src, support, initEffect, hls, isLoading, isReady, error,
                    errorCount, recoveryCalls, errorEffect, onErrorCalls >>
    /\ UNCHANGED << vars, playbackVars, uiVars >>

(* handleEnded, on the ended event of the video. *)
VideoEnded ==
    /\ isPlaying
    /\ isPlaying' = FALSE
    /\ UNCHANGED << src, support, initEffect, hls, isLoading, isReady, error,
                    errorCount, recoveryCalls, errorEffect, onErrorCalls >>
    /\ UNCHANGED << vars, playbackVars, uiVars >>

(* handleError, on the error event of the video. *)
VideoError ==
    /\ src # None
    /\ SetError(<< "Video playback error" >>)
    /\ UNCHANGED << src, support, initEffect, hls, isLoading, isReady, isPlaying,
                    recoveryCalls, onErrorCalls >>
    /\ UNCHANGED << vars, playbackVars, uiVars >>

(* controls.play(): video.play() rejects and the rejection is stored. *)
PlayFailed ==
    /\ src # None
    /\ SetError(<< "Playback failed" >>)
    /\ UNCHANGED << src, support, initEffect, hls, isLoading, isReady, isPlaying,
                    recoveryCalls, onErrorCalls >>
    /\ UNCHANGED << vars, playbackVars, uiVars >>

(* The onError effect of VideoPlayer runs: onError(state.error) when an    *)
(* error is set.                                                           *)
NotifyError ==
    /\ errorEffect = "pending"
    /\ errorEffect' = "idle"
    /\ onErrorCalls' = IF error # None THEN Append(onErrorCalls, error[1].id)
                       ELSE onErrorCalls
    /\ UNCHANGED << src, support, initEffect, hls, isLoading, isReady, isPlaying,
                    error, errorCount, recoveryCalls >>
    /\ UNCHANGED << vars, playbackVars, uiVars >>

AdapterInit ==
    /\ ControllerInit
    /\ PlaybackMounted(<< >>)
    /\ UiIdle
    /\ \E s \in Sources, browser \in Support : AdapterMounted(Some(s), browser)

AdapterNext ==
    \/ \E s \in Sources : SourceChange(Some(s))
    \/ InitEffect
    \/ ManifestParsed
    \/ \E fatal \in BOOLEAN, type \in ErrorTypes : HlsError(fatal, type)
    \/ VideoPlay
    \/ VideoPause
    \/ VideoEnded
    \/ VideoError
    \/ PlayFailed
    \/ NotifyError

AdapterSpec == AdapterInit /\ [][AdapterNext]_adapterVars

(* --------------------------- player session --------------------------- *)
(* The messages of the transcript that can be clicked. *)
SessionMessages == {0, 1}

(* The auto-hide effect of VideoPlayer for isPlaying = p and isHovering =  *)
(* h: its cleanup clears the timer of its last run; the controls are shown *)
(* when the video is not playing or the pointer is over it, and a new      *)
(* timer is started otherwise.                                             *)
AutoHideEffect(p, h) ==
    IF ~ p \/ h
    THEN hideTimer' = FALSE /\ showControls' = TRUE
    ELSE hideTimer' = TRUE /\ UNCHANGED showControls

(* handlePlay and handlePause, on the play and pause events of the video,  *)
(* followed by the auto-hide effect.                                       *)
SessionPlayPause ==
    /\ mounted
    /\ listening
    /\ playing' = ~ playing
    /\ AutoHideEffect(playing', isHovering)
    /\ UNCHANGED << mounted, session, liveInstances, retryTimer, listening,
                    isHovering, clicked, clickTimers, playPromises, lateCallbacks >>
    /\ UNCHANGED << vars, playbackVars, adapterVars, browseVars, hookVars >>

(* onMouseEnter and onMouseLeave of the player, followed by the auto-hide  *)
(* effect.                                                                 *)
MouseEnterLeave ==
    /\ mounted
    /\ isHovering' = ~ isHovering
    /\ AutoHideEffect(playing, isHovering')
    /\ UNCHANGED << mounted, session, liveInstances, retryTimer, listening,
                    playing, clicked, clickTimers, playPromises, lateCallbacks >>
    /\ UNCHANGED << vars, playbackVars, adapterVars, browseVars, hookVars >>

(* The 3000 ms timer of the auto-hide effect fires. *)
HideTimerFire ==
    /\ hideTimer
    /\ hideTimer' = FALSE
    /\ IF mounted
       THEN showControls' = FALSE /\ UNCHANGED lateCallbacks
       ELSE /\ lateCallbacks' = lateCallbacks \cup {"setShowControls"}
            /\ UNCHANGED showControls
    /\ UNCHANGED << mounted, session, liveInstances, retryTimer, listening,
                    playing, isHovering, clicked, clickTimers, playPromises >>
    /\ UNCHANGED << vars, playbackVars, adapterVars, browseVars, hookVars >>

(* handleClick of TranscriptMessageItem: wasClicked is set and a 500 ms    *)
(* timer is started to reset it.                                           *)
MessageClick(i) ==
    /\ mounted
    /\ [ session |-> session, message |-> i ] \notin clickTimers
    /\ clicked' = clicked \cup {i}
    /\ clickTimers' = clickTimers \cup { [ session |-> session, message |-> i ] }
    /\ UNCHANGED << mounted, session, liveInstances, retryTimer, listening, playing,
                    isHovering, showControls, hideTimer, playPromises, lateCallbacks >>
    /\ UNCHANGED << vars, playbackVars, adapterVars, browseVars, hookVars >>

(* The 500 ms timer of handleClick fires: setWasClicked(false), which is   *)
(* ignored when the item has been unmounted.                               *)
ClickTimerFire(t) ==
    /\ t \in clickTimers
    /\ clickTimers' = clickTimers \ {t}
    /\ IF mounted /\ t.session = session
       THEN clicked' = clicked \ {t.message} /\ UNCHANGED lateCallbacks
       ELSE /\ lateCallbacks' = lateCallbacks \cup {"setWasClicked"}
            /\ UNCHANGED clicked
    /\ UNCHANGED << mounted, session, liveInstances, retryTimer, listening, playing,
                    isHovering, showControls, hideTimer, playPromises >>
    /\ UNCHANGED << vars, playbackVars, adapterVars, browseVars, hookVars >>

(* controls.play(): video.play() is called and awaited. *)
ControlsPlay ==
    /\ mounted
    /\ session \notin playPromises
    /\ playPromises' = playPromises \cup {session}
    /\ UNCHANGED << mounted, session, liveInstances, retryTimer, listening, playing,
                    isHovering, showControls, hideTimer, clicked, clickTimers,
                    lateCallbacks >>
    /\ UNCHANGED << vars, playbackVars, adapterVars, browseVars, hookVars >>

(* The promise of video.play() settles: a rejection is stored with         *)
(* setState, which is ignored when the hook has been unmounted.            *)
PlaySettled(n, rejected) ==
    /\ n \in playPromises
    /\ playPromises' = playPromises \ {n}
    /\ lateCallbacks' = IF rejected /\ ~ (mounted /\ n = session)
                        THEN lateCallbacks \cup {"setState"}
                        ELSE lateCallbacks
    /\ UNCHANGED << mounted, session, liveInstances, retryTimer, listening, playing,
                    isHovering, showControls, hideTimer, clicked, clickTimers >>
    /\ UNCHANGED << vars, playbackVars, adapterVars, browseVars, hookVars >>

(* A fatal network error of hls.js: startLoad() starts a retry. *)
StartLoad ==
    /\ liveInstances # {}
    /\ ~ retryTimer
    /\ retryTimer' = TRUE
    /\ UNCHANGED << mounted, session, liveInstances, listening, playing, isHovering,
                    showControls, hideTimer, clicked, clickTimers, playPromises,
                    lateCallbacks >>
    /\ UNCHANGED << vars, playbackVars, adapterVars, browseVars, hookVars >>

(* The retry of hls.js runs; destroy() has removed it otherwise. *)
RetryFire ==
    /\ retryTimer
    /\ retryTimer' = FALSE
    /\ lateCallbacks' = IF liveInstances = {} THEN lateCallbacks \cup {"startLoad"}
                        ELSE lateCallbacks
    /\ UNCHANGED << mounted, session, liveInstances, listening, playing, isHovering,
                    showControls, hideTimer, clicked, clickTimers, playPromises >>
    /\ UNCHANGED << vars, playbackVars, adapterVars, browseVars, hookVars >>

(* The source is replaced: the cleanup of the [src] effect destroys the    *)
(* instance, and the effect creates one for the new source.                *)
ReplaceSource(s) ==
    /\ mounted
    /\ s \notin liveInstances
    /\ liveInstances' = {s}
    /\ retryTimer' = FALSE
    /\ UNCHANGED << mounted, session, listening, playing, isHovering, showControls,
                    hideTimer, clicked, clickTimers, playPromises, lateCallbacks >>
    /\ UNCHANGED << vars, playbackVars, adapterVars, browseVars, hookVars >>

(* The page is left: the cleanups of the effects destroy the instance,     *)
(* remove the listeners and clear the auto-hide timer.                     *)
Unmount ==
    /\ mounted
    /\ mounted' = FALSE
    /\ liveInstances' = {}
    /\ retryTimer' = FALSE
    /\ listening' = FALSE
    /\ hideTimer' = FALSE
    /\ UNCHANGED << session, playing, isHovering, showControls, clicked, clickTimers,
                    playPromises, lateCallbacks >>
    /\ UNCHANGED << vars, playbackVars, adapterVars, browseVars, hookVars >>

(* Another recording page is opened. *)
Mount(s) ==
    /\ ~ mounted
    /\ session < MaxSessions
    /\ mounted' = TRUE
    /\ session' = session + 1
    /\ liveInstances' = {s}
    /\ retryTimer' = FALSE
    /\ listening' = TRUE
    /\ playing' = FALSE
    /\ isHovering' = FALSE
    /\ showControls' = TRUE
    /\ hideTimer' = FALSE
    /\ clicked' = {}
    /\ UNCHANGED << clickTimers, playPromises, lateCallbacks >>
    /\ UNCHANGED << vars, playbackVars, adapterVars, browseVars, hookVars >>

SessionInit ==
    /\ ControllerInit
    /\ PlaybackMounted(<< >>)
    /\ AdapterMounted(None, "none")
    /\ BrowseIdle
    /\ RecordingMounted
    /\ TokenMounted
    /\ \E s \in Sources : SessionMounted(Some(s), 1)

SessionNext ==
    \/ SessionPlayPause
    \/ MouseEnterLeave
    \/ HideTimerFire
    \/ \E i \in SessionMessages : MessageClick(i)
    \/ \E t \in clickTimers : ClickTimerFire(t)
    \/ ControlsPlay
    \/ \E n \in playPromises, rejected \in BOOLEAN : PlaySettled(n, rejected)
    \/ StartLoad
    \/ RetryFire
    \/ \E s \in Sources : ReplaceSource(s)
    \/ Unmount
    \/ \E s \in Sources : Mount(s)

SessionSpec == SessionInit /\ [][SessionNext]_sessionVars

(* -------------------------- recording pages --------------------------- *)
(* recording.status === "completed" && recording.playbackUrl: a string is  *)
(* truthy unless it is empty.                                              *)
IsPlayable_UrlOnly(rec) == rec.playbackUrl # None /\ rec.playbackUrl # Some("")

IsPlayable(rec) ==
    /\ rec.status = "completed"
    /\ rec.playbackUrl # None
    /\ rec.playbackUrl # Some("")

(* What a RecordingCard offers for a summary. *)
RecordingCard(rec) ==
    IF IsPlayable(rec) THEN [ link |-> Some(rec.id), text |-> "Play" ]
    ELSE [ link |-> None,
           text |-> IF rec.status = "processing" THEN "Processing..." ELSE "Unavailable" ]

(* The transcript of the development API, by its timestamps. *)
MOCK_TRANSCRIPT ==
    << [ id |-> 1, timestampMs |-> 1500 ], [ id |-> 2, timestampMs |-> 4200 ],
       [ id |-> 3, timestampMs |-> 8500 ], [ id |-> 4, timestampMs |-> 12000 ],
       [ id |-> 5, timestampMs |-> 18500 ], [ id |-> 6, timestampMs |-> 22000 ] >>

(* fetchRecordingDetail: the summary with the transcript, which is served  *)
(* for a completed recording only.                                         *)
RecordingDetail(rec) ==
    [ id |-> rec.id, status |-> rec.status, playbackUrl |-> rec.playbackUrl,
      transcript |-> IF rec.status = "completed" THEN MOCK_TRANSCRIPT ELSE << >> ]

(* The main content of PlaybackView for a loaded recording: the player     *)
(* with its source and the transcript with onSeek, or a notice.            *)
MainContent(rec) ==
    IF IsPlayable(rec)
    THEN [ player |-> Some(rec.playbackUrl[1]), seekable |-> Some(rec.transcript) ]
    ELSE [ player |-> None, seekable |-> None ]

(* MOCK_RECORDINGS.slice(start, end) of the recordings the provider has. *)
Slice(start, end) ==
    [ i \in 1..(IF end < catalogTotal THEN end - start
                ELSE IF start < catalogTotal THEN catalogTotal - start ELSE 0)
        |-> Catalog(start + i) ]

(* fetchRecordings(page, pageSize). *)
Recordings(currentPage) ==
    [ recordings |-> Slice((currentPage - 1) * PageSize, (currentPage - 1) * PageSize + PageSize),
      total |-> catalogTotal,
      page |-> currentPage,
      pageSize |-> PageSize ]

(* Math.ceil(total / pageSize) for a total >= 0 and a pageSize > 0. *)
Ceil(total, pageSize) == (total + pageSize - 1) \div pageSize

totalPages == IF listData # None THEN Ceil(listData[1].total, listData[1].pageSize) ELSE 0
hasNextPage == listPage < totalPages
hasPrevPage == listPage > 1

(* What RecordingList renders: the first return that applies. *)
ListView ==
    IF listIsLoading /\ listData = None THEN "loading"
    ELSE IF listError # None THEN "error"
    ELSE IF listData = None \/ listData[1].recordings = << >> THEN "empty"
    ELSE "list"

(* The Previous and the Next button are rendered and not disabled. *)
PreviousEnabled ==
    ListView = "list" /\ totalPages > 1 /\ ~ (~ hasPrevPage \/ listIsLoading)
NextEnabled_NoLoadingCheck ==
    ListView = "list" /\ totalPages > 1 /\ hasNextPage
NextEnabled ==
    ListView = "list" /\ totalPages > 1 /\ ~ (~ hasNextPage \/ listIsLoading)

(* loadRecordings(currentPage) up to its await. *)
LoadRecordings(currentPage) ==
    /\ listIsLoading' = TRUE
    /\ listError' = None
    /\ listFetches' = listFetches \cup {currentPage}

(* The provider gets one more recording. *)
RecordingAdded ==
    /\ route # "none"
    /\ catalogTotal < MaxTotal
    /\ catalogTotal' = catalogTotal + 1
    /\ UNCHANGED << route, listData, listPage, listIsLoading, listError, listFetches,
                    recordingId, recording, viewIsLoading, viewError, loads, idChanges >>
    /\ UNCHANGED << vars, playbackVars, adapterVars, sessionVars, hookVars >>

(* fetchRecordings resolves: setData(result), and the finally. *)
FetchRecordingsOk(currentPage) ==
    /\ currentPage \in listFetches
    /\ listFetches' = listFetches \ {currentPage}
    /\ listData' = Some(Recordings(currentPage))
    /\ listIsLoading' = FALSE
    /\ UNCHANGED << route, catalogTotal, listPage, listError, recordingId, recording,
                    viewIsLoading, viewError, loads, idChanges >>
    /\ UNCHANGED << vars, playbackVars, adapterVars, sessionVars, hookVars >>

(* fetchRecordings throws: setError(err), and the finally. *)
FetchRecordingsError(currentPage) ==
    /\ currentPage \in listFetches
    /\ listFetches' = listFetches \ {currentPage}
    /\ listError' = Some("Failed to fetch recordings")
    /\ listIsLoading' = FALSE
    /\ UNCHANGED << route, catalogTotal, listData, listPage, recordingId, recording,
                    viewIsLoading, viewError, loads, idChanges >>
    /\ UNCHANGED << vars, playbackVars, adapterVars, sessionVars, hookVars >>

(* The Previous button: setPage((p) => p - 1), and the effect loads the    *)
(* new page.                                                               *)
ClickPrevious ==
    /\ route = "list"
    /\ PreviousEnabled
    /\ listPage' = listPage - 1
    /\ LoadRecordings(listPage')
    /\ UNCHANGED << route, catalogTotal, listData, recordingId, recording,
                    viewIsLoading, viewError, loads, idChanges >>
    /\ UNCHANGED << vars, playbackVars, adapterVars, sessionVars, hookVars >>

(* The Next button: setPage((p) => p + 1), and the effect loads the new    *)
(* page.                                                                   *)
ClickNext ==
    /\ route = "list"
    /\ NextEnabled
    /\ listPage' = listPage + 1
    /\ LoadRecordings(listPage')
    /\ UNCHANGED << route, catalogTotal, listData, recordingId, recording,
                    viewIsLoading, viewError, loads, idChanges >>
    /\ UNCHANGED << vars, playbackVars, adapterVars, sessionVars, hookVars >>

(* The Refresh button of the list. *)
ClickRefresh ==
    /\ route = "list"
    /\ ListView = "list"
    /\ ~ listIsLoading
    /\ LoadRecordings(listPage)
    /\ UNCHANGED << route, catalogTotal, listData, listPage, recordingId, recording,
                    viewIsLoading, viewError, loads, idChanges >>
    /\ UNCHANGED << vars, playbackVars, adapterVars, sessionVars, hookVars >>

(* The Try Again button of the error view of the list. *)
ClickTryAgain ==
    /\ route = "list"
    /\ ListView = "error"
    /\ LoadRecordings(listPage)
    /\ UNCHANGED << route, catalogTotal, listData, listPage, recordingId, recording,
                    viewIsLoading, viewError, loads, idChanges >>
    /\ UNCHANGED << vars, playbackVars, adapterVars, sessionVars, hookVars >>

(* /recordings/[id] is opened, by the Play link of a card or by its URL:   *)
(* the list is unmounted and PlaybackView mounted.                         *)
OpenRecording(id) ==
    /\ route = "list"
    /\ route' = "detail"
    /\ listData' = None
    /\ listPage' = 1
    /\ listIsLoading' = FALSE
    /\ listError' = None
    /\ listFetches' = {}
    /\ recordingId' = id
    /\ recording' = None
    /\ viewIsLoading' = TRUE
    /\ viewError' = None
    /\ loads' = { [ id |-> id, n |-> 0, aborted |-> FALSE ] }
    /\ idChanges' = 0
    /\ UNCHANGED catalogTotal
    /\ UNCHANGED << vars, playbackVars, adapterVars, sessionVars, hookVars >>

(* The Back to Recordings link: PlaybackView is unmounted, the cleanup of  *)
(* its effect aborts the load, and the list is mounted.                    *)
BackToRecordings ==
    /\ route = "detail"
    /\ route' = "list"
    /\ recordingId' = 0
    /\ recording' = None
    /\ viewIsLoading' = FALSE
    /\ viewError' = None
    /\ loads' = {}
    /\ idChanges' = 0
    /\ listData' = None
    /\ listPage' = 1
    /\ listIsLoading' = TRUE
    /\ listError' = None
    /\ listFetches' = {1}
    /\ UNCHANGED catalogTotal
    /\ UNCHANGED << vars, playbackVars, adapterVars, sessionVars, hookVars >>

(* PlaybackView is rendered with another recordingId: the cleanup of the   *)
(* effect aborts the controller of the last load, and load() starts with   *)
(* setIsLoading(true) and setError(null).                                  *)
ChangeRecordingId(id) ==
    /\ route = "detail"
    /\ id # recordingId
    /\ idChanges < MaxIdChanges
    /\ idChanges' = idChanges + 1
    /\ recordingId' = id
    /\ viewIsLoading' = TRUE
    /\ viewError' = None
    /\ loads' = { [ l EXCEPT !.aborted = TRUE ] : l \in loads }
                  \cup { [ id |-> id, n |-> idChanges', aborted |-> FALSE ] }
    /\ UNCHANGED << route, catalogTotal, listData, listPage, listIsLoading, listError,
                    listFetches, recording >>
    /\ UNCHANGED << vars, playbackVars, adapterVars, sessionVars, hookVars >>

(* fetchRecordingDetail resolves, which the development API does whatever  *)
(* its signal: setRecording(data), and the finally.                        *)
LoadOk(l) ==
    /\ l \in loads
    /\ l.id \in 1..catalogTotal
    /\ loads' = loads \ {l}
    /\ recording' = Some(RecordingDetail(Catalog(l.id)))
    /\ viewIsLoading' = FALSE
    /\ UNCHANGED << route, catalogTotal, listData, listPage, listIsLoading, listError,
                    listFetches, recordingId, viewError, idChanges >>
    /\ UNCHANGED << vars, playbackVars, adapterVars, sessionVars, hookVars >>

(* fetchRecordingDetail throws an Error that is not an AbortError, for a   *)
(* recording that is not found or a provider that cannot be reached:       *)
(* setError(err), and the finally.                                         *)
LoadError(l, unreachable) ==
    /\ l \in loads
    /\ IF unreachable THEN ~ l.aborted ELSE l.id \notin 1..catalogTotal
    /\ loads' = loads \ {l}
    /\ viewError' = Some(IF unreachable THEN << "Failed to fetch recording" >>
                         ELSE << "Recording not found", l.id >>)
    /\ viewIsLoading' = FALSE
    /\ UNCHANGED << route, catalogTotal, listData, listPage, listIsLoading, listError,
                    listFetches, recordingId, recording, idChanges >>
    /\ UNCHANGED << vars, playbackVars, adapterVars, sessionVars, hookVars >>

(* fetch rejects with an AbortError: no setError, and the finally. *)
LoadAborted(l) ==
    /\ l \in loads
    /\ l.aborted
    /\ loads' = loads \ {l}
    /\ viewIsLoading' = FALSE
    /\ UNCHANGED << route, catalogTotal, listData, listPage, listIsLoading, listError,
                    listFetches, recordingId, recording, viewError, idChanges >>
    /\ UNCHANGED << vars, playbackVars, adapterVars, sessionVars, hookVars >>

BrowseInit ==
    /\ ControllerInit
    /\ PlaybackMounted(<< >>)
    /\ AdapterMounted(None, "none")
    /\ SessionMounted(None, 0)
    /\ RecordingMounted
    /\ TokenMounted
    /\ route = "list"
    /\ catalogTotal \in 0..MaxTotal
    /\ ListMounted
    /\ ViewUnmounted

BrowseNext ==
    \/ RecordingAdded
    \/ \E currentPage \in listFetches : FetchRecordingsOk(currentPage)
    \/ \E currentPage \in listFetches : FetchRecordingsError(currentPage)
    \/ ClickPrevious
    \/ ClickNext
    \/ ClickRefresh
    \/ ClickTryAgain
    \/ \E id \in RecordingIds : OpenRecording(id)
    \/ BackToRecordings
    \/ \E id \in RecordingIds : ChangeRecordingId(id)
    \/ \E l \in loads : LoadOk(l)
    \/ \E l \in loads, unreachable \in BOOLEAN : LoadError(l, unreachable)
    \/ \E l \in loads : LoadAborted(l)

BrowseSpec == BrowseInit /\ [][BrowseNext]_browseVars

(* --------------------------- recording state -------------------------- *)
(* startRecording: the state is set and a timer started, which nothing     *)
(* clears.                                                                 *)
StartRecording_NoTimer ==
    /\ recState' = "starting"
    /\ UNCHANGED recTimers

StartRecording ==
    /\ recState' = "starting"
    /\ recTimers' = Append(recTimers, "recording")

(* stopRecording. *)
StopRecording ==
    /\ recState' = "stopping"
    /\ recTimers' = Append(recTimers, "stopped")

(* toggleRecording. *)
ToggleRecording_Unguarded ==
    IF recState = "recording" THEN StopRecording ELSE StartRecording

ToggleRecording ==
    IF recState = "recording" THEN StopRecording
    ELSE IF recState = "idle" \/ recState = "stopped" THEN StartRecording
    ELSE UNCHANGED << recState, recTimers >>

(* A call of one of the functions the hook returns. *)
RecordingCall(f) ==
    /\ Len(recTimers) < MaxTimers
    /\ CASE f = "startRecording" -> StartRecording
         [] f = "stopRecording" -> StopRecording
         [] f = "toggleRecording" -> ToggleRecording
    /\ UNCHANGED isHovered
    /\ UNCHANGED << vars, playbackVars, adapterVars, sessionVars, browseVars, tokenVars >>

(* The timer started first fires: the timers have the same delay. *)
RecordingTimerFire ==
    /\ recTimers # << >>
    /\ recState' = Head(recTimers)
    /\ recTimers' = Tail(recTimers)
    /\ UNCHANGED isHovered
    /\ UNCHANGED << vars, playbackVars, adapterVars, sessionVars, browseVars, tokenVars >>

(* onMouseEnter and onMouseLeave of the button of RecordingIndicator. *)
HoverToggle ==
    /\ isHovered' = ~ isHovered
    /\ UNCHANGED << recState, recTimers >>
    /\ UNCHANGED << vars, playbackVars, adapterVars, sessionVars, browseVars, tokenVars >>

RecordingInit ==
    /\ ControllerInit
    /\ PlaybackMounted(<< >>)
    /\ AdapterMounted(None, "none")
    /\ SessionMounted(None, 0)
    /\ BrowseIdle
    /\ TokenMounted
    /\ RecordingMounted

RecordingNext ==
    \/ \E f \in {"startRecording", "stopRecording", "toggleRecording"} : RecordingCall(f)
    \/ RecordingTimerFire
    \/ HoverToggle

RecordingSpec == RecordingInit /\ [][RecordingNext]_recordingVars

(* Time passes: a pending timer fires in the end. *)
RecordingLiveSpec == RecordingSpec /\ WF_recordingVars(RecordingTimerFire)

(* ------------------------------- token -------------------------------- *)
(* The token the route issues for a request. *)
TokenFor(request) == << "token", request.roomName, request.participantName >>

(* fetchToken(request, signal) up to its await: the state is reset to      *)
(* loading and the request is sent.                                        *)
FetchToken(request, withSignal) ==
    /\ callCount < MaxCalls
    /\ callCount' = callCount + 1
    /\ tokenState' = [ token |-> None, isLoading |-> TRUE, error |-> None ]
    /\ tokenCalls' = tokenCalls \cup
          { [ n |-> callCount', request |-> request, signal |-> withSignal,
              aborted |-> FALSE ] }
    /\ UNCHANGED << vars, playbackVars, adapterVars, sessionVars, browseVars, recordingVars >>

(* The caller aborts the signal it passed. *)
AbortToken(c) ==
    /\ c \in tokenCalls
    /\ c.signal
    /\ ~ c.aborted
    /\ tokenCalls' = (tokenCalls \ {c}) \cup { [ c EXCEPT !.aborted = TRUE ] }
    /\ UNCHANGED << tokenState, callCount >>
    /\ UNCHANGED << vars, playbackVars, adapterVars, sessionVars, browseVars, recordingVars >>

(* The response is ok: the token is stored. *)
TokenIssued(c) ==
    /\ c \in tokenCalls
    /\ ~ c.aborted
    /\ tokenCalls' = tokenCalls \ {c}
    /\ tokenState' = [ token |-> Some(TokenFor(c.request)), isLoading |-> FALSE,
                       error |-> None ]
    /\ UNCHANGED callCount
    /\ UNCHANGED << vars, playbackVars, adapterVars, sessionVars, browseVars, recordingVars >>

(* The response is not ok, or fetch throws another error than an           *)
(* AbortError: the error is stored.                                        *)
TokenFailed(c) ==
    /\ c \in tokenCalls
    /\ ~ c.aborted
    /\ tokenCalls' = tokenCalls \ {c}
    /\ tokenState' = [ token |-> None, isLoading |-> FALSE,
                       error |-> Some(<< "error", c.request.roomName >>) ]
    /\ UNCHANGED callCount
    /\ UNCHANGED << vars, playbackVars, adapterVars, sessionVars, browseVars, recordingVars >>

(* fetch rejects with an AbortError: null is returned and the state is     *)
(* left as it is.                                                          *)
TokenAborted(c) ==
    /\ c \in tokenCalls
    /\ c.aborted
    /\ tokenCalls' = tokenCalls \ {c}
    /\ UNCHANGED << tokenState, callCount >>
    /\ UNCHANGED << vars, playbackVars, adapterVars, sessionVars, browseVars, recordingVars >>

(* clearToken, on the disconnect of the room. *)
ClearToken ==
    /\ tokenState.token # None
    /\ tokenState' = [ token |-> None, isLoading |-> FALSE, error |-> None ]
    /\ UNCHANGED << tokenCalls, callCount >>
    /\ UNCHANGED << vars, playbackVars, adapterVars, sessionVars, browseVars, recordingVars >>

TokenInit ==
    /\ ControllerInit
    /\ PlaybackMounted(<< >>)
    /\ AdapterMounted(None, "none")
    /\ SessionMounted(None, 0)
    /\ BrowseIdle
    /\ RecordingMounted
    /\ TokenMounted

TokenNext ==
    \/ \E request \in TokenRequests, withSignal \in BOOLEAN : FetchToken(request, withSignal)
    \/ \E c \in tokenCalls : AbortToken(c)
    \/ \E c \in tokenCalls : TokenIssued(c)
    \/ \E c \in tokenCalls : TokenFailed(c)
    \/ \E c \in tokenCalls : TokenAborted(c)
    \/ ClearToken

TokenSpec == TokenInit /\ [][TokenNext]_tokenVars

(* ------------------------ steps of the handlers ------------------------ *)
(* The step in which a handleGatewayEvent invocation applies an event of    *)
(* the given kind and returns.                                              *)
EventStep(r, kind) ==
    /\ evTask[r].pc = "loaded"
    /\ evTask[r].ev[1].kind = kind
    /\ evTask'[r].pc = "idle"

(* The step in which requestStop returns after the gateway's ack. *)
StopOkStep(r) == stopTask[r].pc = "ret_ok" /\ stopTask'[r].pc = "idle"

(* The step in which requestStop returns after the gateway's error. *)
StopErrorStep(r) == stopTask[r].pc = "ret_err" /\ stopTask'[r].pc = "idle"

(* The step in which requestStart returns after the gateway's error. *)
StartErrorStep(r) == startTask[r] = "ret_err" /\ startTask'[r] = "error"

StatusChange(r, from, to) ==
    recordings[r].status = from /\ recordings'[r].status = to

(* ================================ claims =============================== *)

(* C1: once a Recording is COMPLETED or FAILED, no gateway event and no     *)
(* requestStop changes its status or any of its fields; so a Recording is   *)
(* never COMPLETED at one time and FAILED at another.                       *)
C1_TerminalIsFinal ==
    [][ \A r \in RecIds :
          recordings[r].status \in Terminal => recordings'[r] = recordings[r] ]_vars

(* A `started` event is being handled on a Recording that is FAILED, after  *)
(* a requestStop on it was refused.                                         *)
C1_Witness ==
    \E r \in RecIds :
        /\ recordings[r].status = "failed"
        /\ stopResult[r] = "rejected"
        /\ evTask[r].pc = "loaded"
        /\ evTask[r].ev[1].kind = "started"
        /\ evTask[r].snap.status = "failed"

(* C2 as stated: every change of a Recording's status is STARTING->ACTIVE   *)
(* on `started`, ACTIVE->PROCESSING on a stop request, PROCESSING->COMPLETED *)
(* on `ended`, or STARTING/ACTIVE/PROCESSING->FAILED on `failed`.           *)
C2_Original ==
    [][ \A r \in RecIds :
          (recordings[r].status # "none"
             /\ recordings'[r].status # recordings[r].status)
          => \/ StatusChange(r, "starting", "active") /\ EventStep(r, "started")
             \/ StatusChange(r, "active", "processing") /\ StopOkStep(r)
             \/ StatusChange(r, "processing", "completed") /\ EventStep(r, "ended")
             \/ /\ recordings[r].status \in NonTerminal
                /\ recordings'[r].status = "failed"
                /\ EventStep(r, "failed") ]_vars

(* The (state, event) pairs the claim lists as valid for handleGatewayEvent. *)
C2_ListedPair(status, kind) ==
    \/ status = "starting" /\ kind = "started"
    \/ status = "processing" /\ kind = "ended"
    \/ status \in NonTerminal /\ kind = "failed"

(* C2 as amended: the changes listed above, or STARTING->FAILED when the    *)
(* gateway start call of requestStart fails; and handleGatewayEvent on any  *)
(* other (state, event) pair returns normally with the Recording unchanged. *)
C2_Transitions ==
    [][ \A r \in RecIds :
          /\ (recordings[r].status # "none"
                /\ recordings'[r].status # recordings[r].status)
             => \/ StatusChange(r, "starting", "active") /\ EventStep(r, "started")
                \/ StatusChange(r, "active", "processing") /\ StopOkStep(r)
                \/ StatusChange(r, "processing", "completed") /\ EventStep(r, "ended")
                \/ /\ recordings[r].status \in NonTerminal
                   /\ recordings'[r].status = "failed"
                   /\ EventStep(r, "failed")
                \/ StatusChange(r, "starting", "failed") /\ StartErrorStep(r)
          /\ \A kind \in EventKinds :
               (EventStep(r, kind) /\ ~ C2_ListedPair(recordings[r].status, kind))
               => /\ recordings'[r] = recordings[r]
                  /\ evTask'[r] = IdleTask
                  /\ lock'[r] = "free" ]_vars

(* A `started` event is being handled on a Recording that is COMPLETED and *)
(* whose last applied event is another one.                                 *)
C2_Witness ==
    \E r \in RecIds :
        /\ recordings[r].status = "completed"
        /\ evTask[r].pc = "loaded"
        /\ evTask[r].ev[1].kind = "started"
        /\ evTask[r].ev[1].ordinal # recordings[r].lastOrdinal

(* Every gateway event a job may send, whatever its place in the job's      *)
(* sequence of events.                                                      *)
AllEvents ==
    { [ kind |-> k, ordinal |-> n, timestamp |-> n ] :
        k \in EventKinds, n \in 1..MaxOrdinal }

(* C3: handleGatewayEvent is idempotent: for every Recording state and      *)
(* every gateway event, applying the event twice in a row yields the same   *)
(* Recording as applying it once.                                           *)
C3_Idempotent ==
    \A r \in RecIds : \A ev \in AllEvents :
        Transition(Transition(recordings[r], ev), ev) = Transition(recordings[r], ev)

(* The `started` event that made a Recording ACTIVE is delivered again and  *)
(* is being handled.                                                        *)
C3_Witness ==
    \E r \in RecIds :
        /\ recordings[r].status = "active"
        /\ evTask[r].pc = "loaded"
        /\ evTask[r].ev[1].kind = "started"
        /\ evTask[r].ev[1].ordinal = recordings[r].lastOrdinal

(* The invocations that are between their read and their write of r. *)
InFlight(r) ==
    { t \in {"start", "stop", "event"} :
        \/ t = "start" /\ startTask[r] \in {"calling", "ret_ok", "ret_err"}
        \/ t = "stop" /\ stopTask[r].pc # "idle"
        \/ t = "event" /\ evTask[r].pc # "idle" }

(* C4: mutating operations on one Recording are serialized: at most one     *)
(* invocation is between its read and its write of a Recording, and the row *)
(* it read is still the stored row, so that each write has the effect of    *)
(* the whole operation executed atomically and overwrites no other write.   *)
C4_Serialized ==
    \A r \in RecIds :
        /\ Cardinality(InFlight(r)) <= 1
        /\ InFlight(r) \subseteq {lock[r]}
        /\ stopTask[r].pc # "idle" => stopTask[r].snap = recordings[r]
        /\ evTask[r].pc # "idle" => evTask[r].snap = recordings[r]

(* requestStop holds an ACTIVE Recording while gateway events of its job    *)
(* wait to be handled.                                                      *)
C4_Witness ==
    \E r \in RecIds :
        /\ lock[r] = "stop"
        /\ stopTask[r].pc = "ret_ok"
        /\ pending[r] # {}

Created == { r \in RecIds : recordings[r].status # "none" }

StorageSet(rec) == rec.storageBucket # None /\ rec.storagePath # None

(* What C6 says of the read model: playbackUrl is non-null only when the    *)
(* status is completed.                                                     *)
C6_ReadModel ==
    /\ \A m \in MOCK_RECORDINGS : m.playbackUrl # None => m.status = "completed"
    /\ \A r \in Created :
         Summary(recordings[r]).playbackUrl # None
            => Summary(recordings[r]).status = "completed"

(* What C6 says of durationSeconds and fileSizeBytes. *)
C6_NoMetadataBeforeEnd ==
    \A r \in Created :
        recordings[r].status \in NonTerminal
            => recordings[r].durationSeconds = None /\ recordings[r].fileSizeBytes = None

C8_OptimisticStop ==
    [][ \A r \in RecIds :
          /\ StopOkStep(r)
             => /\ StatusChange(r, "active", "processing")
                /\ \A ev \in seen[r] : ev.kind = "started"
          /\ (recordings[r].status \in NonTerminal /\ recordings'[r].status \in Terminal)
             => /\ ~ StopOkStep(r) /\ ~ StopErrorStep(r)
                /\ \/ EventStep(r, "ended") \/ EventStep(r, "failed")
                   \/ StartErrorStep(r) ]_vars

(* A Recording is PROCESSING after an acknowledged requestStop while its    *)
(* job has not reported `ended` or `failed` yet.                            *)
C8_Witness ==
    \E r \in RecIds :
        /\ recordings[r].status = "processing"
        /\ stopResult[r] = "ok"
        /\ job[r] = "stopping"

(* C9: when the gateway stop call of requestStop fails, the Recording is    *)
(* left exactly as it was, in ACTIVE, the error is returned to the caller,  *)
(* and a requestStop retry is accepted.                                     *)
C9_StopFailureKeepsActive ==
    [][ \A r \in RecIds :
          StopErrorStep(r)
          => /\ recordings'[r] = recordings[r]
             /\ recordings[r].status = "active"
             /\ stopResult'[r] = "error"
             /\ stopTask'[r].pc = "idle"
             /\ lock'[r] = "free" ]_vars

(* After a requestStop that returned an error, a retry has been accepted    *)
(* and acknowledged by the gateway.                                         *)
C9_Witness ==
    \E r \in RecIds :
        /\ stopResult[r] = "error"
        /\ stopTask[r].pc = "ret_ok"
        /\ recordings[r].status = "active"

(* C10: when the gateway start call of requestStart fails, the new          *)
(* Recording is moved from STARTING to FAILED with a reason, the failure is *)
(* reported to the caller, and the gateway start is invoked exactly once    *)
(* for the request.                                                         *)
C10_StartFailure ==
    /\ [](\A r \in RecIds :
            /\ startCalls[r] <= 1
            /\ startTask[r] \in {"ret_ok", "ret_err", "ok", "error"} => startCalls[r] = 1
            /\ startTask[r] = "error"
               => /\ recordings[r].status = "failed"
                  /\ recordings[r].failureReason = Some("egress_start_error")
                  /\ job[r] = "none")
    /\ [][ \A r \in RecIds :
             startTask[r] = "ret_err" /\ startTask'[r] # startTask[r]
             => /\ StartErrorStep(r)
                /\ StatusChange(r, "starting", "failed") ]_vars

(* A requestStart has returned the gateway's error to its caller. *)
C10_Witness ==
    \E r \in RecIds : startTask[r] = "error" /\ startCalls[r] = 1

(* ------------------------- synchronized playback ----------------------- *)
(* The positions the engine can be handed: whole milliseconds, and what    *)
(* the player reports for them after ms / 1000 and * 1000.                 *)
ReportedPositions ==
    { Number(p) : p \in Positions } \cup { SecondsToMs(MsToSeconds(p)) : p \in Positions }

AtOrBefore(T, timeMs) ==
    { i \in 0..(Len(T) - 1) : LessOrEqual(Number(T[i + 1].timestampMs), timeMs) }

LargestAtOrBefore(T, timeMs) ==
    IF AtOrBefore(T, timeMs) = {} THEN -1
    ELSE CHOOSE i \in AtOrBefore(T, timeMs) : \A j \in AtOrBefore(T, timeMs) : j <= i

(* C11: for a transcript sorted by timestampMs and any position, the       *)
(* active index of SyncedTranscript is the largest index whose timestampMs *)
(* is at or before the position (the later of equal timestamps, the last   *)
(* index past the end), and -1 for an empty transcript or a position       *)
(* before the first timestamp.                                             *)
C11_ActiveIndex ==
    /\ activeMessageIndex = LargestAtOrBefore(transcript, currentTimeMs)
    /\ \A p \in ReportedPositions :
          ActiveMessageIndex(transcript, p) = LargestAtOrBefore(transcript, p)
    /\ \/ transcript = << >>
       \/ ~ LessOrEqual(Number(transcript[1].timestampMs), currentTimeMs)
       => activeMessageIndex = -1

(* The position is the timestamp shared by the last two of three messages  *)
(* and the later one is active.                                            *)
C11_Witness ==
    /\ Len(transcript) = 3
    /\ transcript[2].timestampMs = transcript[3].timestampMs
    /\ transcript[1].timestampMs < transcript[2].timestampMs
    /\ currentTimeMs = Number(transcript[3].timestampMs)
    /\ activeMessageIndex = 2

(* The player has reported the position of the last seek and the engine    *)
(* has taken it over.                                                      *)
SeekReported ==
    /\ playerCommands # << >>
    /\ videoCurrentTime = MsToSeconds(playerCommands[Len(playerCommands)].timestampMs)
    /\ hookCurrentTime = videoCurrentTime
    /\ timeEffect = "idle"
    /\ ~ staleSample

(* C12: round trip: after a seek to seekTarget(T[i]) = T[i].timestampMs,   *)
(* once the player has reported that position, the active index is i, for  *)
(* every sorted transcript T and every index i.                            *)
C12_RoundTrip ==
    \A i \in 0..(Len(transcript) - 1) :
        /\ SeekReported
        /\ playerCommands[Len(playerCommands)].timestampMs = SeekTarget(transcript[i + 1])
        => activeMessageIndex = i

(* C13: for a sorted transcript the active index never decreases when the  *)
(* position grows: for positions p1 <= p2 the index at p1 is at most the   *)
(* index at p2, none (-1) being below every index.                         *)
C13_Monotonic ==
    [][ /\ LessOrEqual(currentTimeMs, currentTimeMs')
           => activeMessageIndex <= activeMessageIndex'
        /\ \A p1, p2 \in ReportedPositions :
              LessOrEqual(p1, p2)
              => ActiveMessageIndex(transcript, p1) <= ActiveMessageIndex(transcript, p2)
      ]_playbackVars

(* The position has grown from 0 to the timestamp of the last of three     *)
(* messages and the index has followed it from 0 to 2.                     *)
C13_Witness ==
    /\ Len(transcript) = 3
    /\ transcript[1].timestampMs = 0
    /\ transcript[1].timestampMs < transcript[2].timestampMs
    /\ transcript[2].timestampMs < transcript[3].timestampMs
    /\ currentTimeMs = Number(transcript[3].timestampMs)
    /\ activeMessageIndex = 2

(* C14: once a seek has been issued, no active index computed from a       *)
(* position read before that seek is applied: whatever the order of seeks  *)
(* and queued position updates, every new active index comes from a        *)
(* position the player reported after the last seek.                       *)
C14_NoStaleIndex ==
    [][ /\ timeEffect = "pending"
        /\ timeEffect' = "idle"
        /\ activeMessageIndex' # activeMessageIndex
        => ~ staleSample ]_playbackVars

(* C15: selecting the transcript entry i issues exactly one seek command,  *)
(* whose target is T[i].timestampMs unchanged, and leaves the current      *)
(* position and the active index of the engine unchanged; the active index *)
(* changes only when a position reported by the player is applied.         *)
C15_SeekOnly ==
    [][ /\ \A i \in 0..(Len(transcript) - 1) :
              i \notin wasClicked /\ i \in wasClicked'
              => playerCommands' =
                    Append(playerCommands,
                           [ op |-> "seek", timestampMs |-> transcript[i + 1].timestampMs ])
        /\ playerCommands' # playerCommands
           => /\ Len(playerCommands') = Len(playerCommands) + 1
              /\ SubSeq(playerCommands', 1, Len(playerCommands)) = playerCommands
              /\ currentTimeMs' = currentTimeMs
              /\ activeMessageIndex' = activeMessageIndex
        /\ activeMessageIndex' # activeMessageIndex
           => /\ timeEffect = "pending" /\ timeEffect' = "idle"
              /\ currentTimeMs' = SecondsToMs(hookCurrentTime)
              /\ playerCommands' = playerCommands
      ]_playbackVars

(* The second message, at 1001 ms, has been clicked: one seek to 1001 is   *)
(* out, the engine is still at position 0 on the first message.            *)
C15_Witness ==
    /\ Len(transcript) >= 2
    /\ transcript[1].timestampMs = 0
    /\ transcript[2].timestampMs = 1001
    /\ wasClicked = {1}
    /\ playerCommands = << [ op |-> "seek", timestampMs |-> 1001 ] >>
    /\ videoCurrentTime = MsToSeconds(1001)
    /\ currentTimeMs = Number(0)
    /\ activeMessageIndex = 0

(* C16: no feedback loop: a position update from the player, and the       *)
(* recomputation of the active index with its auto-scroll, never issue a   *)
(* command to the player and never move its clock.                         *)
C16_NoFeedback ==
    [][ \/ hookCurrentTime' # hookCurrentTime
        \/ timeEffect' # timeEffect
        \/ currentTimeMs' # currentTimeMs
        \/ activeMessageIndex' # activeMessageIndex
        \/ scrolledTo' # scrolledTo
        => /\ playerCommands' = playerCommands
           /\ videoCurrentTime' = videoCurrentTime ]_playbackVars

(* The player has reported a later position, the second message has become *)
(* active and has been scrolled into view, and no command has been issued. *)
C16_Witness ==
    /\ activeMessageIndex = 1
    /\ scrolledTo = 1
    /\ timeEffect = "idle"
    /\ hookCurrentTime = videoCurrentTime
    /\ currentTimeMs = SecondsToMs(hookCurrentTime)
    /\ playerCommands = << >>
(* ------------------------------ HLS player ----------------------------- *)
(* The step in which the ERROR handler of hls.js stores a fatal error. *)
HlsFatalStep ==
    /\ error' # error
    /\ error' # None
    /\ error'[1].message[1] = "HLS Error"

(* C17: when the player reports a fatal error the adapter enters the error *)
(* state at once and makes no automatic recovery attempt from then on: no  *)
(* reload of the source and no restart of the media decoding.              *)
C17_FatalNoRecovery ==
    [][ /\ HlsFatalStep => error' # None /\ recoveryCalls' = recoveryCalls
        /\ error # None /\ error' # None
           => Len(recoveryCalls') <= Len(recoveryCalls) ]_adapterVars

(* C18: for a recoverable error, a network or a media error, the adapter   *)
(* puts no error into the state the UI sees unless a recovery it attempted *)
(* before has failed.                                                      *)
C18_RecoverableNotSurfaced ==
    [][ /\ HlsFatalStep
        /\ error'[1].message[2] \in {"networkError", "mediaError"}
        => recoveryCalls # << >> ]_adapterVars

(* C19: in one playback attempt onError is called once: after the adapter  *)
(* has entered the error state, no further event of the player, a later    *)
(* error of the video element or another HLS error included, notifies the  *)
(* UI again.                                                               *)
C19_NotifiedOnce == Len(onErrorCalls) <= 1

(* C20: the error state is terminal for a playback attempt: once an error  *)
(* is set no event of the player makes the adapter ready or playing, and   *)
(* the error is cleared only by the initialization with a source.          *)
C20_ErrorTerminal ==
    [][ error # None
        => /\ error' = None => initEffect = "pending" /\ initEffect' = "idle"
           /\ error' # None => (isReady' => isReady) /\ (isPlaying' => isPlaying)
      ]_adapterVars

(* C21: the adapter follows idle -> loading -> ready <-> playing/paused:   *)
(* loading and ready are never both in effect, also after the source of a  *)
(* ready player is changed, and playing is entered only from ready, never  *)
(* while the adapter is idle or loading.                                   *)
C21_StateMachine ==
    [][ /\ ~ (isLoading' /\ isReady')
        /\ isPlaying' /\ ~ isPlaying => isReady /\ ~ isLoading ]_adapterVars

(* ---------------------------- player session --------------------------- *)
(* C22: disposing the player, by unmount or by replacing the source,       *)
(* destroys the player instance at once and cancels every pending timer    *)
(* and recovery attempt of the session: after the dispose no callback of   *)
(* the disposed session is outstanding, runs or changes any state.         *)
C22_DisposeCancelsAll ==
    /\ Cardinality(liveInstances) <= 1
    /\ ~ mounted
       => /\ liveInstances = {}
          /\ ~ retryTimer
          /\ ~ listening
          /\ ~ hideTimer
          /\ clickTimers = {}
    /\ \A t \in clickTimers : t.session = session
    /\ lateCallbacks = {}

RetryList ==
    /\ BrowseNext
    /\ route' = "list"
    /\ listPage' = listPage
    /\ listPage \in listFetches'
    /\ listIsLoading'
RetryView ==
    /\ BrowseNext
    /\ route' = "detail"
    /\ recordingId' = recordingId
    /\ \E l \in loads' : l.id = recordingId /\ ~ l.aborted
    /\ viewIsLoading'

(* C24: a fetch that fails, the provider being unreachable or the          *)
(* recording not found, leaves the view in an error state that carries the *)
(* message of the error and from which the user can retry the same fetch;  *)
(* a retry that succeeds clears the error and shows the fetched data.      *)
C24_RetryableError ==
    /\ route = "list" /\ listError # None /\ ~ listIsLoading
       => /\ ListView = "error"
          /\ listError[1] # ""
          /\ ENABLED RetryList
    /\ route = "detail" /\ viewError # None /\ ~ viewIsLoading
       => /\ viewError[1] # << >>
          /\ ENABLED RetryView
    /\ route = "list" /\ ~ listIsLoading /\ listFetches = {} /\ listError = None
       => listData # None

(* --------------------------- recording state --------------------------- *)
(* C25: toggleRecording moves idle or stopped to starting and recording to *)
(* stopping, and leaves the state unchanged, and starts no timer, when it  *)
(* is called while the state is starting or stopping.                      *)
C25_Toggle ==
    [][ ToggleRecording
        => /\ recState \in {"idle", "stopped"} => recState' = "starting"
           /\ recState = "recording" => recState' = "stopping"
           /\ recState \in {"starting", "stopping"}
              => recState' = recState /\ recTimers' = recTimers ]_recordingVars

(* A recording is starting with the pointer on the button of the           *)
(* indicator, and only the timer of its start is pending.                  *)
C25_Witness ==
    /\ recState = "starting"
    /\ recTimers = << "recording" >>
    /\ isHovered

(* C26: after startRecording the state is starting at once and becomes     *)
(* recording when the start delay elapses; after stopRecording it is       *)
(* stopping at once and becomes stopped when the stop delay elapses: every *)
(* started recording reaches recording and every stopped one reaches       *)
(* stopped in the end.                                                     *)
C26_DelayedTransitions ==
    /\ [][ /\ recTimers' = Append(recTimers, "recording") => recState' = "starting"
           /\ recTimers' = Append(recTimers, "stopped") => recState' = "stopping"
           /\ recTimers # << >> /\ recTimers' = Tail(recTimers)
              => recState' = Head(recTimers) ]_recordingVars
    /\ (recState = "starting") ~> (recState = "recording")
    /\ (recState = "stopping") ~> (recState = "stopped")

(* The stop delay of a recording has elapsed: it is stopped and no timer   *)
(* is pending.                                                             *)
C26_Witness ==
    /\ recState = "stopped"
    /\ recTimers = << >>

(* C28: under every sequence of startRecording, stopRecording and          *)
(* toggleRecording calls and firings of their timers the state moves only  *)
(* along idle -> starting -> recording -> stopping -> stopped -> starting: *)
(* a timer of an earlier call never sets recording after stopRecording nor *)
(* stopped after a newer startRecording.                                   *)
C28_OnlyAlongTheCycle ==
    [][ recState' # recState
        => << recState, recState' >> \in
              { << "idle", "starting" >>, << "starting", "recording" >>,
                << "recording", "stopping" >>, << "stopping", "stopped" >>,
                << "stopped", "starting" >> } ]_recordingVars

(* --------------------------- recording pages --------------------------- *)
(* What C27 says of the buttons: Previous is disabled on page 1, Next on   *)
(* the last page, and both while a fetch is in flight.                     *)
C27_Buttons ==
    /\ listPage = 1 => ~ PreviousEnabled
    /\ listPage >= totalPages => ~ NextEnabled
    /\ listFetches # {} => ~ PreviousEnabled /\ ~ NextEnabled

C29_SupersededLoadIsInert ==
    [][ \A l \in loads :
          /\ l.aborted
          /\ route' = "detail"
          /\ loads' = loads \ {l}
          => /\ viewIsLoading' = viewIsLoading
             /\ recording' = recording
             /\ viewError' = viewError ]_browseVars

(* -------------------------------- token -------------------------------- *)
(* C30: useToken ends up holding the outcome of the most recent fetchToken *)
(* call: the response of an earlier call never overwrites the token or the *)
(* error of a later one, and once every outstanding call has finished, by  *)
(* abort included, isLoading is false.                                     *)
C30_LatestCallWins ==
    [][ /\ \A c \in tokenCalls :
              c.n < callCount /\ tokenCalls' = tokenCalls \ {c}
              => tokenState' = tokenState
        /\ tokenCalls' = {} => ~ tokenState'.isLoading ]_tokenVars
====
